---------------------------- MODULE Spec2Model ----------------------------
(***************************************************************************)
(* Trip Budget Manager (mybudgettrip): the balance reconciliation engine   *)
(* recalculateState and the HTTP handlers of server/server.js that read    *)
(* the trip from data.json, change one fact, recompute and write it back.  *)
(*                                                                         *)
(* JavaScript numbers are modelled as exact rationals [n, d] in lowest     *)
(* terms (d > 0); d = 0 stands for a value that is not a finite number     *)
(* (undefined, NaN).  Binary floating-point rounding error is therefore    *)
(* outside the model; Math.round(x * 100) / 100 is modelled exactly.       *)
(***************************************************************************)
EXTENDS Integers, Sequences, FiniteSets, TLC

(***************************************************************************)
(* Numbers                                                                 *)
(***************************************************************************)
Abs(a) == IF a < 0 THEN -a ELSE a

RECURSIVE GCD(_, _)
GCD(a, b) == IF b = 0 THEN a ELSE GCD(b, a % b)

\* The number n/d (d > 0) in lowest terms.
Norm(n, d) ==
    LET g == GCD(Abs(n), d)
    IN  [n |-> n \div g, d |-> d \div g]

R(i) == [n |-> i, d |-> 1]
Zero == R(0)
NaN == [n |-> 0, d |-> 0]

\* typeof x === 'number' and x is not NaN
IsNum(x) == x.d > 0

RAdd(x, y) == IF IsNum(x) /\ IsNum(y) THEN Norm(x.n * y.d + y.n * x.d, x.d * y.d) ELSE NaN
RSub(x, y) == IF IsNum(x) /\ IsNum(y) THEN Norm(x.n * y.d - y.n * x.d, x.d * y.d) ELSE NaN
\* x / k for an integer k > 0
RDivN(x, k) == IF IsNum(x) THEN Norm(x.n, x.d * k) ELSE NaN
RLt(x, y) == x.n * y.d < y.n * x.d
RLe(x, y) == x.n * y.d <= y.n * x.d
\* Math.max(x, y): NaN if either argument is NaN
RMax(x, y) == IF IsNum(x) /\ IsNum(y) THEN (IF RLt(x, y) THEN y ELSE x) ELSE NaN
\* x || 0
OrZero(x) == IF IsNum(x) THEN x ELSE Zero
\* Math.round(x * 100) / 100: nearest cent, a tie goes up (towards +Infinity)
Round2(x) == IF IsNum(x) THEN Norm((200 * x.n + x.d) \div (2 * x.d), 100) ELSE NaN

(***************************************************************************)
(* The reconciliation engine: recalculateState (server/server.js)          *)
(***************************************************************************)
Idx(s) == 1..Len(s)

\* members.find(m => m.id === id) / findIndex: the first match, 0 if none.
FirstIdx(members, id) ==
    IF \E i \in Idx(members) : members[i].id = id
    THEN CHOOSE i \in Idx(members) :
            /\ members[i].id = id
            /\ \A j \in 1..(i - 1) : members[j].id # id
    ELSE 0

\* Mutant of ExpectedShare: the budget is divided by the target member count
\* of the trip instead of the number of members who joined.
ExpectedShare_ByTarget(data) ==
    IF data.memberCount > 0 THEN RDivN(data.budget, data.memberCount) ELSE Zero

\* data.budget / actualMemberCount, 0 for a trip without members
ExpectedShare(data) ==
    IF Len(data.members) > 0 THEN RDivN(data.budget, Len(data.members)) ELSE Zero

\* Mutant of InitMember: the personal accumulator is not reset before the
\* expense loop adds to it.
InitMember_KeepPersonal(m, expected) ==
    [m EXCEPT !.expectedContribution = IF m.customExpected THEN @ ELSE expected,
              !.reimbursed = IF IsNum(@) THEN @ ELSE Zero,
              !.actualContribution = IF IsNum(@) THEN @ ELSE Zero,
              !.expenseShare = Zero]

\* "Initialize member stats" and the reset of the two accumulators
InitMember(m, expected) ==
    [m EXCEPT !.expectedContribution = IF m.customExpected THEN @ ELSE expected,
              !.personal = IF m.customPersonal THEN @ ELSE Zero,
              !.reimbursed = IF IsNum(@) THEN @ ELSE Zero,
              !.actualContribution = IF IsNum(@) THEN @ ELSE Zero,
              !.expenseShare = Zero]

\* parseFloat(e.amount) || 0
Amount(e) == OrZero(e.amount)

\* Mutant of CreditPayer: nobody is credited for paying from pocket.
CreditPayer_Nobody(members, e) == members

\* Mutant of CreditPayer: the payer is credited whether or not the personal
\* of the payer is frozen.
CreditPayer_IgnoreFreeze(members, e) ==
    LET p == FirstIdx(members, e.paidBy)
    IN  IF e.paidBy # "" /\ e.paidBy # "pool" /\ p # 0
        THEN [members EXCEPT ![p].personal = RAdd(@, Amount(e))]
        ELSE members

\* "Track who paid for this expense": the payer's personal grows by the amount
CreditPayer(members, e) ==
    LET p == FirstIdx(members, e.paidBy)
    IN  IF e.paidBy # "" /\ e.paidBy # "pool" /\ p # 0 /\ ~members[p].customPersonal
        THEN [members EXCEPT ![p].personal = RAdd(@, Amount(e))]
        ELSE members

\* Mutant of SplitMembers: an expense without split list and without payer
\* is split between all members, as a pool expense is.
SplitMembers_DefaultAll(members, e) ==
    IF Len(e.splitBetween) > 0 THEN e.splitBetween
    ELSE IF e.paidBy # "" /\ e.paidBy # "all_members" /\ e.paidBy # "pool"
         THEN <<e.paidBy>>
         ELSE [i \in Idx(members) |-> members[i].id]

\* Mutant of SplitMembers: the pool sentinels are taken for a member id, so
\* that a pool expense without split list is charged to nobody.
SplitMembers_PayerOnly(members, e) ==
    IF Len(e.splitBetween) > 0 THEN e.splitBetween
    ELSE IF e.paidBy # "" THEN <<e.paidBy>>
    ELSE <<>>

\* "Determine which members to split this expense between"
SplitMembers(members, e) ==
    IF Len(e.splitBetween) > 0 THEN e.splitBetween
    ELSE IF e.paidBy # ""
         THEN IF e.paidBy = "all_members" \/ e.paidBy = "pool"
              THEN [i \in Idx(members) |-> members[i].id]
              ELSE <<e.paidBy>>
         ELSE <<>>

\* Mutant of SharePerMember: the amount is divided by a fixed head count of
\* two instead of the length of the split list.
SharePerMember_ByTwo(e, split) == RDivN(Amount(e), 2)

\* amount / splitMembers.length
SharePerMember(e, split) == RDivN(Amount(e), Len(split))

\* splitMembers.forEach(memberId => ...): entries k..Len(split) of the loop
RECURSIVE AddShares(_, _, _, _)
AddShares(members, split, share, k) ==
    IF k > Len(split) THEN members
    ELSE LET i == FirstIdx(members, split[k])
             next == IF i # 0
                     THEN [members EXCEPT ![i].expenseShare = RAdd(@, share)]
                     ELSE members
         IN  AddShares(next, split, share, k + 1)

\* The body of data.expenses.forEach for one expense
ApplyExpense(members, e) ==
    LET paid == CreditPayer(members, e)
        split == SplitMembers(paid, e)
    IN  IF Len(split) > 0
        THEN AddShares(paid, split, SharePerMember(e, split), 1)
        ELSE paid

\* data.expenses.forEach(...): expenses k..Len(expenses), in list order
RECURSIVE ApplyExpenses(_, _, _)
ApplyExpenses(members, expenses, k) ==
    IF k > Len(expenses) THEN members
    ELSE ApplyExpenses(ApplyExpense(members, expenses[k]), expenses, k + 1)

\* Mutant of FinalizeMember: the balance is recomputed whatever customBalance says.
FinalizeMember_IgnoreFreeze(m) ==
    LET actual == OrZero(m.actualContribution)
        netPersonal == RMax(RSub(m.personal, OrZero(m.reimbursed)), Zero)
    IN  [m EXCEPT !.remainingContribution = RMax(RSub(m.expectedContribution, actual), Zero),
                  !.balance = Round2(RSub(RAdd(actual, netPersonal), m.expenseShare))]

\* Mutant of FinalizeMember: the net personal credit is not clamped at zero.
FinalizeMember_NoClamp(m) ==
    LET actual == OrZero(m.actualContribution)
        netPersonal == RSub(m.personal, OrZero(m.reimbursed))
    IN  [m EXCEPT !.remainingContribution = RMax(RSub(m.expectedContribution, actual), Zero),
                  !.balance = IF m.customBalance THEN @
                              ELSE Round2(RSub(RAdd(actual, netPersonal), m.expenseShare))]

\* "Finalize member balances"
FinalizeMember(m) ==
    LET actual == OrZero(m.actualContribution)
        netPersonal == RMax(RSub(m.personal, OrZero(m.reimbursed)), Zero)
    IN  [m EXCEPT !.remainingContribution = RMax(RSub(m.expectedContribution, actual), Zero),
                  !.balance = IF m.customBalance THEN @
                              ELSE Round2(RSub(RAdd(actual, netPersonal), m.expenseShare))]

recalculateState(data) ==
    LET expected == ExpectedShare(data)
        init == [i \in Idx(data.members) |-> InitMember(data.members[i], expected)]
        alloc == ApplyExpenses(init, data.expenses, 1)
    IN  [data EXCEPT !.members = [i \in Idx(alloc) |-> FinalizeMember(alloc[i])]]

(***************************************************************************)
(* The trip document (data.json) and the HTTP handlers of server.js.       *)
(* A handler is an operator from the document read by readData and the     *)
(* request to the HTTP status and the document that writeData leaves in    *)
(* the file (the document read when the handler returns before writing).   *)
(* t is the value of Date.now() during the request.                        *)
(***************************************************************************)
\* The trip code: a sequence of characters, each the index of the character
\* in 'ABCDEFGHIJKLMNOPQRSTUVWXYZ0123456789'.
CharsLength == 36
CodeLength == 6
maxAttempts == 100

\* data.tripCode of a document without code ("")
NoCode == <<>>

\* Values of Math.random(), which lie in [0, 1)
Randoms == {Zero, Norm(999, 1000)}

\* Math.floor(Math.random() * chars.length)
RandomIndex(r) == (r.n * CharsLength) \div r.d

\* chars.charAt(i): the character, the empty string outside the string
CharAt(i) == IF i >= 0 /\ i < CharsLength THEN <<i>> ELSE <<>>

\* for (let i = 0; i < 6; i++) code += chars.charAt(...), the draws of the
\* loop all giving r
RECURSIVE DrawCode(_, _)
DrawCode(r, i) ==
    IF i < CodeLength THEN CharAt(RandomIndex(r)) \o DrawCode(r, i + 1) ELSE <<>>

\* The codes the loop can draw
Codes == {DrawCode(r, 0) : r \in Randoms}

\* MongoDB as generateTripCode sees it: whether it is connected, the codes of
\* the trips stored there, and whether the lookup Trip.findOne throws.
NoMongo == [connected |-> FALSE, codes |-> {}, failing |-> FALSE]

\* jsonUnique && mongoUnique for a drawn code
IsUnique(code, fileCode, db) ==
    /\ fileCode = NoCode \/ fileCode # code
    /\ ~db.connected \/ db.failing \/ code \notin db.codes

\* The while loop of generateTripCode from the given number of attempts on:
\* the codes it can return, unique being the codes that pass the uniqueness
\* test and taken those that fail it.  A drawn code that is unique ends the
\* loop; so does the attempt that brings the count to maxAttempts, whatever
\* it drew.
RECURSIVE TripCodeAttempts(_, _, _)
TripCodeAttempts(unique, taken, attempts) ==
    IF taken = {} THEN unique
    ELSE IF attempts + 1 >= maxAttempts THEN unique \cup taken
    ELSE TripCodeAttempts(unique, taken, attempts + 1)

\* The codes generateTripCode can return
generateTripCode(fileCode, db) ==
    LET unique == {c \in Codes : IsUnique(c, fileCode, db)}
    IN  TripCodeAttempts(unique, Codes \ unique, 0)

\* readData when data.json does not exist
EmptyData ==
    [tripName |-> "", tripCode |-> NoCode, budget |-> Zero, memberCount |-> 0,
     adminPin |-> "", members |-> <<>>, expenses |-> <<>>,
     pendingExpenses |-> <<>>, pendingMembers |-> <<>>,
     pendingContributions |-> <<>>, pendingBudgetRequests |-> <<>>,
     pendingDeletions |-> <<>>]

\* Date.now().toString()
TimeId(t) == ToString(t)

Resp(status, d) == [status |-> status, data |-> d]

\* array.findIndex(r => r.id === id), 0 if none
FindById(queue, id) == FirstIdx(queue, id)

\* The member a pending request is about ("" when there is no such request)
RequestTarget(queue, id) ==
    IF FindById(queue, id) = 0 THEN "" ELSE queue[FindById(queue, id)].memberId

\* array.splice(i, 1)
RemoveAt(s, i) == [k \in 1..(Len(s) - 1) |-> IF k < i THEN s[k] ELSE s[k + 1]]

\* array.filter(e => e.id !== id)
RECURSIVE FilterOutId(_, _)
FilterOutId(s, id) ==
    IF s = <<>> THEN <<>>
    ELSE IF Head(s).id = id THEN FilterOutId(Tail(s), id)
         ELSE <<Head(s)>> \o FilterOutId(Tail(s), id)

\* A member object as a request body or a handler builds it: numeric fields
\* that the object does not carry are NaN, flags it does not carry are false.
MemberObject(id, name, actual) ==
    [id |-> id, name |-> name, expectedContribution |-> NaN,
     actualContribution |-> actual, personal |-> NaN, reimbursed |-> NaN,
     remainingContribution |-> NaN, balance |-> NaN, expenseShare |-> NaN,
     customExpected |-> FALSE, customPersonal |-> FALSE, customBalance |-> FALSE]

\* POST /api/trip: code is what generateTripCode returns when it is called
SetupTrip(data, body, code) ==
    LET cleared == IF body.clearData
                   THEN [data EXCEPT !.members = <<>>, !.expenses = <<>>,
                                     !.pendingExpenses = <<>>, !.pendingMembers = <<>>,
                                     !.pendingContributions = <<>>,
                                     !.pendingBudgetRequests = <<>>,
                                     !.pendingDeletions = <<>>, !.tripCode = NoCode]
                   ELSE data
        filled == [cleared EXCEPT !.tripName = body.tripName,
                                  !.budget = OrZero(body.budget),
                                  !.memberCount = body.memberCount,
                                  !.adminPin = IF body.adminPin # "" THEN body.adminPin ELSE @,
                                  !.tripCode = IF @ = NoCode THEN code ELSE @]
    IN  Resp(200, recalculateState(filled))

\* POST /api/join
JoinTrip(data, code, name, pin, t) ==
    LET isAdmin == Len(data.members) > 0 /\ data.members[1].name = name
    IN  IF data.tripCode # code THEN Resp(400, data)
        ELSE IF isAdmin /\ data.adminPin # "" /\ pin = "" THEN Resp(200, data)
        ELSE IF isAdmin /\ data.adminPin # "" /\ pin # data.adminPin THEN Resp(401, data)
        ELSE IF \E i \in Idx(data.members) : data.members[i].name = name THEN Resp(200, data)
        ELSE IF Len(data.members) >= data.memberCount THEN Resp(400, data)
        ELSE IF \E i \in Idx(data.pendingMembers) : data.pendingMembers[i].name = name
             THEN Resp(200, data)
        ELSE Resp(200, [data EXCEPT !.pendingMembers =
                            Append(@, [id |-> TimeId(t), name |-> name])])

\* POST /api/members
AddMember(data, body, t) ==
    LET newMember == IF body.id = "" THEN [body EXCEPT !.id = TimeId(t)] ELSE body
    IN  Resp(200, recalculateState([data EXCEPT !.members = Append(@, newMember)]))

\* POST /api/members/update
UpdateMember(data, body) ==
    LET i == FirstIdx(data.members, body.id)
        m == data.members[i]
        upd == [m EXCEPT
                  !.name = IF body.name # "" THEN body.name ELSE @,
                  !.customExpected = body.customExpected,
                  !.expectedContribution =
                      IF body.customExpected THEN OrZero(body.expectedContribution) ELSE @,
                  !.customPersonal = body.customPersonal,
                  !.personal = IF body.customPersonal THEN OrZero(body.personal) ELSE @,
                  !.customBalance = body.customBalance,
                  !.balance = IF body.customBalance THEN OrZero(body.balance) ELSE @,
                  !.actualContribution = OrZero(body.actualContribution)]
    IN  IF i = 0 THEN Resp(404, data)
        ELSE Resp(200, recalculateState([data EXCEPT !.members[i] = upd]))

\* Mutant of Contribute: the document is written without recalculateState.
Contribute_NoRecalc(data, id, amount, isAdmin) ==
    LET i == FirstIdx(data.members, id)
    IN  IF i = 0 THEN Resp(404, data)
        ELSE IF ~IsNum(amount) THEN Resp(400, data)
        ELSE IF ~isAdmin THEN Resp(403, data)
        ELSE Resp(200, [data EXCEPT !.members[i].actualContribution = RAdd(OrZero(@), amount)])

\* Mutant of Contribute: the admin flag is checked after the contribution
\* was recorded and written.
Contribute_AdminCheckLate(data, id, amount, isAdmin) ==
    LET i == FirstIdx(data.members, id)
        paid == recalculateState(
                    [data EXCEPT !.members[i].actualContribution = RAdd(OrZero(@), amount)])
    IN  IF i = 0 THEN Resp(404, data)
        ELSE IF ~IsNum(amount) THEN Resp(400, data)
        ELSE IF ~isAdmin THEN Resp(403, paid)
        ELSE Resp(200, paid)

\* POST /api/members/contribute
Contribute(data, id, amount, isAdmin) ==
    LET i == FirstIdx(data.members, id)
    IN  IF i = 0 THEN Resp(404, data)
        ELSE IF ~IsNum(amount) THEN Resp(400, data)
        ELSE IF ~isAdmin THEN Resp(403, data)
        ELSE Resp(200, recalculateState(
                 [data EXCEPT !.members[i].actualContribution = RAdd(OrZero(@), amount)]))

\* POST /api/members/contribute of the multi-trip server (unnamed/part_000):
\* a payment above a positive remainder is split, the remainder goes to
\* actualContribution and the excess to personal, before recalculateState.
ContributeMultiTrip(data, id, amount, isAdmin) ==
    LET i == FirstIdx(data.members, id)
        m == data.members[i]
        remaining == RMax(RSub(m.expectedContribution, OrZero(m.actualContribution)), Zero)
        paid == IF RLt(remaining, amount) /\ RLt(Zero, remaining)
                THEN [m EXCEPT !.actualContribution = RAdd(OrZero(@), remaining),
                               !.personal = RAdd(OrZero(@), RSub(amount, remaining))]
                ELSE [m EXCEPT !.actualContribution = RAdd(OrZero(@), amount)]
    IN  IF i = 0 THEN Resp(404, data)
        ELSE IF ~IsNum(amount) THEN Resp(400, data)
        ELSE IF ~isAdmin THEN Resp(403, data)
        ELSE Resp(200, recalculateState([data EXCEPT !.members[i] = paid]))

\* Mutant of RequestContribution: the requested amount is credited at once.
RequestContribution_CreditNow(data, memberId, amount, t) ==
    LET i == FirstIdx(data.members, memberId)
        queued == [data EXCEPT !.pendingContributions =
                       Append(@, [id |-> TimeId(t), memberId |-> memberId, amount |-> amount])]
    IN  IF i = 0 THEN Resp(200, queued)
        ELSE Resp(200, recalculateState(
                 [queued EXCEPT !.members[i].actualContribution = RAdd(OrZero(@), amount)]))

\* POST /api/contributions/request
RequestContribution(data, memberId, amount, t) ==
    Resp(200, [data EXCEPT !.pendingContributions =
                   Append(@, [id |-> TimeId(t), memberId |-> memberId, amount |-> amount])])

\* Mutant of ApproveContribution: the amount is added after recalculateState ran.
ApproveContribution_AddAfterRecalc(data, id, action) ==
    LET r == FindById(data.pendingContributions, id)
        request == data.pendingContributions[r]
        i == FirstIdx(data.members, request.memberId)
        applied == IF action = "approve" /\ i # 0
                   THEN [recalculateState(data) EXCEPT
                            !.members[i].actualContribution = RAdd(OrZero(@), request.amount)]
                   ELSE data
    IN  IF r = 0 THEN Resp(404, data)
        ELSE Resp(200, [applied EXCEPT !.pendingContributions = RemoveAt(@, r)])

\* Mutant of ApproveContribution: a request whose member is not found is
\* answered and left in the queue.
ApproveContribution_KeepOrphan(data, id, action) ==
    LET r == FindById(data.pendingContributions, id)
        request == data.pendingContributions[r]
        i == FirstIdx(data.members, request.memberId)
        applied == IF action = "approve" /\ i # 0
                   THEN recalculateState(
                            [data EXCEPT !.members[i].actualContribution =
                                             RAdd(OrZero(@), request.amount)])
                   ELSE data
    IN  IF r = 0 THEN Resp(404, data)
        ELSE IF action = "approve" /\ i = 0 THEN Resp(200, data)
        ELSE Resp(200, [applied EXCEPT !.pendingContributions = RemoveAt(@, r)])

\* POST /api/contributions/approve
ApproveContribution(data, id, action) ==
    LET r == FindById(data.pendingContributions, id)
        request == data.pendingContributions[r]
        i == FirstIdx(data.members, request.memberId)
        applied == IF action = "approve" /\ i # 0
                   THEN recalculateState(
                            [data EXCEPT !.members[i].actualContribution =
                                             RAdd(OrZero(@), request.amount)])
                   ELSE data
    IN  IF r = 0 THEN Resp(404, data)
        ELSE Resp(200, [applied EXCEPT !.pendingContributions = RemoveAt(@, r)])

\* POST /api/members/reimburse
Reimburse(data, id, amount) ==
    LET i == FirstIdx(data.members, id)
    IN  IF i = 0 THEN Resp(404, data)
        ELSE IF ~IsNum(amount) \/ RLe(amount, Zero) THEN Resp(400, data)
        ELSE Resp(200, recalculateState(
                 [data EXCEPT !.members[i].reimbursed = RAdd(OrZero(@), amount)]))

\* POST /api/members/refund
Refund(data, id, amount) ==
    LET i == FirstIdx(data.members, id)
    IN  IF i = 0 THEN Resp(404, data)
        ELSE IF ~IsNum(amount) \/ RLe(amount, Zero) THEN Resp(400, data)
        ELSE Resp(200, recalculateState(
                 [data EXCEPT !.members[i].actualContribution = RSub(OrZero(@), amount)]))

\* POST /api/expenses
AddExpense(data, body, t) ==
    LET newExpense == IF body.id = "" THEN [body EXCEPT !.id = TimeId(t)] ELSE body
    IN  Resp(200, recalculateState([data EXCEPT !.expenses = Append(@, newExpense)]))

\* POST /api/expenses/request
RequestExpense(data, body, t) ==
    LET newExpense == IF body.id = "" THEN [body EXCEPT !.id = TimeId(t)] ELSE body
    IN  Resp(200, [data EXCEPT !.pendingExpenses = Append(@, newExpense)])

\* POST /api/expenses/approve
ApproveExpense(data, id, action) ==
    LET r == FindById(data.pendingExpenses, id)
        applied == IF action = "approve"
                   THEN recalculateState(
                            [data EXCEPT !.expenses = Append(@, data.pendingExpenses[r])])
                   ELSE data
    IN  IF r = 0 THEN Resp(404, data)
        ELSE Resp(200, [applied EXCEPT !.pendingExpenses = RemoveAt(@, r)])

\* POST /api/members/approve (memberDetails absent)
ApproveMember(data, id, action, t) ==
    LET r == FindById(data.pendingMembers, id)
        newMember == [MemberObject(TimeId(t), data.pendingMembers[r].name, Zero)
                         EXCEPT !.expectedContribution = Zero,
                                !.remainingContribution = Zero,
                                !.balance = Zero, !.personal = Zero]
        applied == IF action = "approve"
                   THEN recalculateState([data EXCEPT !.members = Append(@, newMember)])
                   ELSE data
    IN  IF r = 0 THEN Resp(404, data)
        ELSE Resp(200, [applied EXCEPT !.pendingMembers = RemoveAt(@, r)])

\* DELETE /api/members/:id
DeleteMember(data, id) ==
    LET i == FirstIdx(data.members, id)
    IN  IF i = 0 THEN Resp(404, data)
        ELSE IF i = 1 THEN Resp(403, data)
        ELSE Resp(200, recalculateState([data EXCEPT !.members = RemoveAt(@, i)]))

\* POST /api/members/delete-request
RequestDeletion(data, memberId, t) ==
    IF \E k \in Idx(data.pendingDeletions) : data.pendingDeletions[k].memberId = memberId
    THEN Resp(400, data)
    ELSE Resp(200, [data EXCEPT !.pendingDeletions =
                        Append(@, [id |-> TimeId(t), memberId |-> memberId])])

\* Mutant of ApproveDeletion: the approval deletes whichever member the request names.
ApproveDeletion_NoAdminGuard(data, id, action) ==
    LET r == FindById(data.pendingDeletions, id)
        i == FirstIdx(data.members, data.pendingDeletions[r].memberId)
        applied == IF action = "approve" /\ i # 0
                   THEN recalculateState([data EXCEPT !.members = RemoveAt(@, i)])
                   ELSE data
    IN  IF r = 0 THEN Resp(404, data)
        ELSE Resp(200, [applied EXCEPT !.pendingDeletions = RemoveAt(@, r)])

\* POST /api/members/delete-approve
ApproveDeletion(data, id, action) ==
    LET r == FindById(data.pendingDeletions, id)
        i == FirstIdx(data.members, data.pendingDeletions[r].memberId)
        applied == IF action = "approve" /\ i # 0 /\ i # 1
                   THEN recalculateState([data EXCEPT !.members = RemoveAt(@, i)])
                   ELSE data
    IN  IF r = 0 THEN Resp(404, data)
        ELSE Resp(200, [applied EXCEPT !.pendingDeletions = RemoveAt(@, r)])

\* DELETE /api/expenses/:id
DeleteExpense(data, id) ==
    Resp(200, recalculateState([data EXCEPT !.expenses = FilterOutId(@, id)]))

\* POST /api/reset
ResetApp(data) == Resp(200, EmptyData)

\* POST /api/reset-data
ResetData(data) ==
    LET admin == [data.members[1] EXCEPT !.actualContribution = Zero,
                                         !.expectedContribution = Zero,
                                         !.remainingContribution = Zero,
                                         !.balance = Zero, !.personal = Zero,
                                         !.reimbursed = Zero]
        kept == IF Len(data.members) > 0 THEN <<admin>> ELSE <<>>
    IN  Resp(200, recalculateState(
            [data EXCEPT !.members = kept, !.expenses = <<>>,
                         !.pendingExpenses = <<>>, !.pendingMembers = <<>>,
                         !.pendingContributions = <<>>, !.pendingBudgetRequests = <<>>,
                         !.pendingDeletions = <<>>]))

\* POST /api/budget/request
RequestBudget(data, memberId, amount, t) ==
    IF FirstIdx(data.members, memberId) = 0 THEN Resp(404, data)
    ELSE Resp(200, [data EXCEPT !.pendingBudgetRequests =
                        Append(@, [id |-> TimeId(t), memberId |-> memberId,
                                   amount |-> amount])])

\* DELETE /api/budget/request/:id
DeleteBudgetRequest(data, id) ==
    Resp(200, [data EXCEPT !.pendingBudgetRequests = FilterOutId(@, id)])

\* app.listen callback: "Force recalculation on startup"
StartupRecalc(data) == Resp(200, recalculateState(data))

(***************************************************************************)
(* The server as a state machine: one request is handled at a time         *)
(* (every handler of server.js is synchronous between readData and         *)
(* writeData, but for POST /api/trip, which is taken as one step here).    *)
(***************************************************************************)
VARIABLES
    data,   \* the trip document in data.json
    stamp,  \* the last value of Date.now() that became an id (0: none yet)
    ops,    \* the number of requests handled so far
    last,   \* the last request and its HTTP status
    setup,  \* the POST /api/trip handler waiting in generateTripCode, if any
    mongo   \* MongoDB: connected or not, the trip codes stored, failing lookups

vars == <<data, stamp, ops, last, setup, mongo>>

\* A request body of POST /api/trip without content
NoBody == [tripName |-> "", budget |-> Zero, memberCount |-> 0, adminPin |-> "",
           clearData |-> FALSE]

\* No POST /api/trip handler is waiting
NoSetup == [busy |-> FALSE, doc |-> EmptyData, body |-> NoBody]

\* Bounds of the model
MaxOps == 3
MaxStamp == 3
MaxMembers == 2
MaxExpenses == 1
MaxPending == 2

\* Request inputs
Names == {"ann", "bob"}
AddedNames == {"ann"}
Pins == {"1234"}
UnknownId == "zz"
ClientIds == {"c1"}
Budgets == {R(10), R(12)}
MemberCounts == {2}
ContribAmounts == {R(6), NaN}
ReimburseAmounts == {R(3), Zero, NaN}
UpdateAmounts == {R(4)}
RefundAmounts == {R(4), Zero, NaN}
ExpenseAmounts == {R(5)}
BudgetRequestAmounts == {R(6)}
Actions == {"approve", "reject"}
CustomFlags == {<<FALSE, FALSE, FALSE>>, <<TRUE, FALSE, FALSE>>, <<FALSE, TRUE, FALSE>>,
                <<FALSE, FALSE, TRUE>>, <<TRUE, TRUE, TRUE>>}

SeqIds(s) == {s[i].id : i \in Idx(s)}
MemberIds == SeqIds(data.members)
AllIds == [i \in Idx(data.members) |-> data.members[i].id]

FirstOnly == IF Len(AllIds) > 0 THEN <<AllIds[1]>> ELSE <<>>

\* Date.now() of a request that makes an id: the same millisecond as the
\* previous id, or a later one.
Stamps == (IF stamp > 0 THEN {stamp} ELSE {}) \cup (IF stamp < MaxStamp THEN {stamp + 1} ELSE {})

\* A handled request: the operation, the id in the request, the member the
\* request is about, the amount and the action in it, and the HTTP status.
Req(op, id, target, amount, action, status) ==
    [op |-> op, id |-> id, target |-> target, amount |-> amount, action |-> action,
     status |-> status]

\* The effect of one handled request: r is the handler's response, usedT
\* tells whether the handler made an id from Date.now() = t.
HandleReq(op, id, target, amount, action, r, usedT, t) ==
    /\ data' = r.data
    /\ stamp' = IF usedT THEN t ELSE stamp
    /\ ops' = ops + 1
    /\ last' = Req(op, id, target, amount, action, r.status)
    /\ UNCHANGED <<setup, mongo>>

\* A request of the bounded run: at most MaxOps requests are handled.
Handle(op, id, target, amount, action, r, usedT, t) ==
    /\ ops < MaxOps
    /\ HandleReq(op, id, target, amount, action, r, usedT, t)

\* The document the setup form of the client leaves behind: POST /api/trip
\* with clearData, then POST /api/members with the administrator, whose id
\* the client made.
StoredTrip ==
    AddMember(SetupTrip(EmptyData,
                        [tripName |-> "goa", budget |-> R(10), memberCount |-> 2,
                         adminPin |-> "1234", clearData |-> TRUE], DrawCode(Zero, 0)).data,
              MemberObject("c1", "ann", Zero), 0).data

\* The server starts without data.json or with the document of an earlier run.
Init ==
    /\ data \in {EmptyData, StoredTrip}
    /\ stamp = 0
    /\ ops = 0
    /\ last = Req("none", "", "", Zero, "", 0)
    /\ setup = NoSetup
    /\ mongo = NoMongo

\* What generateTripCode can return when POST /api/trip calls it
GeneratedCodes == generateTripCode(data.tripCode, mongo)

DoSetupTrip ==
    \E b \in Budgets, mc \in MemberCounts, pin \in Pins, clear \in BOOLEAN,
       code \in GeneratedCodes :
        Handle("setup", "", "", b, IF clear THEN "clear" ELSE "",
               SetupTrip(data, [tripName |-> "goa", budget |-> b, memberCount |-> mc,
                                adminPin |-> pin, clearData |-> clear], code),
               FALSE, stamp)

DoJoinTrip ==
    \E code \in Codes, name \in Names, pin \in Pins \cup {"", "0000"}, t \in Stamps :
        LET r == JoinTrip(data, code, name, pin, t)
        IN  /\ Len(r.data.pendingMembers) <= MaxPending
            /\ Handle("join", name, "", Zero, "", r, r.data # data, t)

DoAddMember ==
    \E id \in ClientIds \cup {""}, name \in AddedNames, t \in Stamps :
        /\ Len(data.members) < MaxMembers
        /\ Handle("addMember", id, "", Zero, "",
                  AddMember(data, MemberObject(id, name, NaN), t), id = "", t)

DoUpdateMember ==
    \E id \in MemberIds \cup {UnknownId}, f \in CustomFlags, a \in UpdateAmounts :
        Handle("updateMember", id, id, a, "",
               UpdateMember(data, [id |-> id, name |-> "",
                                   expectedContribution |-> R(7), personal |-> R(2),
                                   balance |-> R(9), actualContribution |-> a,
                                   customExpected |-> f[1], customPersonal |-> f[2],
                                   customBalance |-> f[3]]),
               FALSE, stamp)

DoContribute ==
    \E id \in MemberIds \cup {UnknownId}, a \in ContribAmounts, isAdmin \in BOOLEAN :
        Handle("contribute", id, id, a, IF isAdmin THEN "admin" ELSE "",
               Contribute(data, id, a, isAdmin), FALSE, stamp)

DoContributeMultiTrip ==
    \E id \in MemberIds \cup {UnknownId}, a \in ContribAmounts, isAdmin \in BOOLEAN :
        Handle("contribute", id, id, a, IF isAdmin THEN "admin" ELSE "",
               ContributeMultiTrip(data, id, a, isAdmin), FALSE, stamp)

DoRequestContribution ==
    \E id \in MemberIds \cup {UnknownId}, a \in ContribAmounts \ {NaN}, t \in Stamps :
        /\ Len(data.pendingContributions) < MaxPending
        /\ Handle("requestContribution", id, id, a, "",
                  RequestContribution(data, id, a, t), TRUE, t)

DoApproveContribution ==
    \E id \in SeqIds(data.pendingContributions) \cup {UnknownId}, action \in Actions :
        Handle("approveContribution", id, RequestTarget(data.pendingContributions, id), Zero, action,
               ApproveContribution(data, id, action), FALSE, stamp)

DoReimburse ==
    \E id \in MemberIds \cup {UnknownId}, a \in ReimburseAmounts :
        Handle("reimburse", id, id, a, "", Reimburse(data, id, a), FALSE, stamp)

DoRefund ==
    \E id \in MemberIds \cup {UnknownId}, a \in RefundAmounts :
        Handle("refund", id, id, a, "", Refund(data, id, a), FALSE, stamp)

\* The request bodies of the expense form: paid from the pool or by a member,
\* split between all members, the first member, or nobody (no list).
ExpenseBodies ==
    {[id |-> "", amount |-> a, paidBy |-> p, splitBetween |-> s] :
        a \in ExpenseAmounts,
        p \in MemberIds \cup {"pool", ""},
        s \in {<<>>, AllIds, FirstOnly}}

DoAddExpense ==
    \E body \in ExpenseBodies, t \in Stamps :
        /\ Len(data.expenses) < MaxExpenses
        /\ Handle("addExpense", "", "", body.amount, "", AddExpense(data, body, t), TRUE, t)

DoRequestExpense ==
    \E body \in ExpenseBodies, t \in Stamps :
        /\ Len(data.pendingExpenses) < MaxPending
        /\ Handle("requestExpense", "", "", body.amount, "",
                  RequestExpense(data, body, t), TRUE, t)

DoApproveExpense ==
    \E id \in SeqIds(data.pendingExpenses) \cup {UnknownId}, action \in Actions :
        LET r == ApproveExpense(data, id, action)
        IN  /\ Len(r.data.expenses) <= MaxExpenses
            /\ Handle("approveExpense", id, "", Zero, action, r, FALSE, stamp)

DoApproveMember ==
    \E id \in SeqIds(data.pendingMembers) \cup {UnknownId}, action \in Actions,
       t \in Stamps :
        LET r == ApproveMember(data, id, action, t)
        IN  /\ Len(r.data.members) <= MaxMembers
            /\ Handle("approveMember", id, "", Zero, action, r,
                      Len(r.data.members) > Len(data.members), t)

DoDeleteMember ==
    \E id \in MemberIds \cup {UnknownId} :
        Handle("deleteMember", id, id, Zero, "", DeleteMember(data, id), FALSE, stamp)

DoRequestDeletion ==
    \E id \in MemberIds \cup {UnknownId}, t \in Stamps :
        LET r == RequestDeletion(data, id, t)
        IN  /\ Len(r.data.pendingDeletions) <= MaxPending
            /\ Handle("requestDeletion", id, id, Zero, "", r, r.data # data, t)

DoApproveDeletion ==
    \E id \in SeqIds(data.pendingDeletions) \cup {UnknownId}, action \in Actions :
        Handle("approveDeletion", id, RequestTarget(data.pendingDeletions, id), Zero, action,
               ApproveDeletion(data, id, action), FALSE, stamp)

DoDeleteExpense ==
    \E id \in SeqIds(data.expenses) \cup {UnknownId} :
        Handle("deleteExpense", id, "", Zero, "", DeleteExpense(data, id), FALSE, stamp)

DoResetApp == Handle("reset", "", "", Zero, "", ResetApp(data), FALSE, stamp)

DoResetData == Handle("resetData", "", "", Zero, "", ResetData(data), FALSE, stamp)

DoRequestBudget ==
    \E id \in MemberIds \cup {UnknownId}, a \in BudgetRequestAmounts, t \in Stamps :
        LET r == RequestBudget(data, id, a, t)
        IN  /\ Len(r.data.pendingBudgetRequests) <= MaxPending
            /\ Handle("requestBudget", id, id, a, "", r, r.data # data, t)

DoDeleteBudgetRequest ==
    \E id \in SeqIds(data.pendingBudgetRequests) \cup {UnknownId} :
        Handle("deleteBudgetRequest", id, "", Zero, "",
               DeleteBudgetRequest(data, id), FALSE, stamp)

DoStartup == Handle("startup", "", "", Zero, "", StartupRecalc(data), FALSE, stamp)

\* Every request but the direct contribution
NextCommon ==
    \/ DoSetupTrip
    \/ DoJoinTrip
    \/ DoAddMember
    \/ DoUpdateMember
    \/ DoRequestContribution
    \/ DoApproveContribution
    \/ DoReimburse
    \/ DoRefund
    \/ DoAddExpense
    \/ DoRequestExpense
    \/ DoApproveExpense
    \/ DoApproveMember
    \/ DoDeleteMember
    \/ DoRequestDeletion
    \/ DoApproveDeletion
    \/ DoDeleteExpense
    \/ DoResetApp
    \/ DoResetData
    \/ DoRequestBudget
    \/ DoDeleteBudgetRequest
    \/ DoStartup

\* server/server.js
Next == NextCommon \/ DoContribute

Spec == Init /\ [][Next]_vars

\* The multi-trip server (unnamed/part_000), whose other handlers change the
\* trip document as those of server/server.js do
NextMultiTrip == NextCommon \/ DoContributeMultiTrip

SpecMultiTrip == Init /\ [][NextMultiTrip]_vars

(***************************************************************************)
(* The engine alone: recalculateState applied to a snapshot, then to its   *)
(* own output.  The snapshots are drawn from every combination of the      *)
(* three override flags per member and from expenses in the explicit       *)
(* (splitBetween) and the legacy (paidBy) format.                          *)
(***************************************************************************)
MaxEngMembers == 2
MaxEngExpenses == 1
MaxRecalcs == 2

EngId(i) == "m" \o ToString(i)

\* Member i of a snapshot: the flags f, stale derived fields, and what the
\* member paid in and got back so far.
EngMember(i, f) ==
    [id |-> EngId(i), name |-> EngId(i),
     expectedContribution |-> R(7), personal |-> R(7), balance |-> R(7),
     remainingContribution |-> R(7), expenseShare |-> R(7),
     actualContribution |-> R(3 * i), reimbursed |-> R(2 * (i - 1)),
     customExpected |-> f[1], customPersonal |-> f[2], customBalance |-> f[3]]

AllFlags == {<<a, b, c>> : a \in BOOLEAN, b \in BOOLEAN, c \in BOOLEAN}

\* The member lists of n members
EngMemberLists(n) == {[i \in 1..n |-> EngMember(i, fs[i])] : fs \in [1..n -> AllFlags]}

EngIdsOf(n) == [i \in 1..n |-> EngId(i)]

EngExpenseChoices(n) ==
    {[id |-> "e", amount |-> a, paidBy |-> p, splitBetween |-> s] :
        a \in ExpenseAmounts,
        p \in {"", "pool", "all_members", EngId(1)},
        s \in {<<>>, <<EngId(1)>>, EngIdsOf(n), <<EngId(1), "gone">>}}

EngExpenseLists(n) ==
    UNION {[1..k -> EngExpenseChoices(n)] : k \in 0..MaxEngExpenses}

EngBudgets == {R(10), R(1)}

\* The snapshots with the members ms
EngSnapshots(ms) ==
    {[EmptyData EXCEPT !.budget = b, !.memberCount = 2,
                       !.members = ms, !.expenses = es] :
        b \in EngBudgets, es \in EngExpenseLists(Len(ms))}

InitEngine ==
    /\ \E n \in 0..MaxEngMembers : \E ms \in EngMemberLists(n) : data \in EngSnapshots(ms)
    /\ stamp = 0
    /\ ops = 0
    /\ last = Req("none", "", "", Zero, "", 0)
    /\ setup = NoSetup
    /\ mongo = NoMongo

Recalculate ==
    /\ ops < MaxRecalcs
    /\ data' = recalculateState(data)
    /\ ops' = ops + 1
    /\ last' = Req("recalc", "", "", Zero, "", 200)
    /\ UNCHANGED <<stamp, setup, mongo>>

NextEngine == Recalculate

SpecEngine == InitEngine /\ [][NextEngine]_vars

(***************************************************************************)
(* Properties of the engine                                                *)
(***************************************************************************)
RECURSIVE SumOver(_, _)
\* The sum of f[i] over the indices in S
SumOver(f, S) ==
    IF S = {} THEN Zero
    ELSE LET i == CHOOSE x \in S : TRUE
         IN  RAdd(f[i], SumOver(f, S \ {i}))

NoCustom(d) ==
    \A i \in Idx(d.members) :
        /\ ~d.members[i].customExpected
        /\ ~d.members[i].customPersonal
        /\ ~d.members[i].customBalance

SumExpected(d) ==
    SumOver([i \in Idx(d.members) |-> d.members[i].expectedContribution], Idx(d.members))

Recalculated == last.op = "recalc"

\* C1: recalculateState is idempotent: applied to its own output (a snapshot
\* whose members all have ids) it changes no field of any member, whatever
\* override flags the members carry.
C1_Idempotent == Recalculated => recalculateState(data).members = data.members

\* C1 witness: the engine ran twice on a trip of two members, one with a
\* frozen personal and balance, one whose personal came from an expense.
C1_Witness ==
    /\ Recalculated /\ ops = 2
    /\ \E i, j \in Idx(data.members) :
          /\ data.members[i].customPersonal /\ data.members[i].customBalance
          /\ ~data.members[j].customPersonal /\ RLt(Zero, data.members[j].personal)

\* C3 as stated: without custom overrides the expected contributions sum to
\* the budget after recalculateState, also for a trip with zero members.
C3_Original == (Recalculated /\ NoCustom(data)) => SumExpected(data) = data.budget

\* C3 amended: without custom overrides the expected contributions of a trip
\* with at least one member sum to the budget after recalculateState; for a
\* trip with zero members the sum is 0, whatever the budget.
C3_SumExpected ==
    (Recalculated /\ NoCustom(data)) =>
        SumExpected(data) = IF Len(data.members) > 0 THEN data.budget ELSE Zero

\* C3 witness: a recalculated trip of two members without overrides whose
\* budget does not divide evenly.
C3_Witness ==
    /\ Recalculated /\ NoCustom(data)
    /\ Len(data.members) = 2 /\ data.budget = R(1)
    /\ data.members[1].expectedContribution = Norm(1, 2)

\* The ids in split are ids of distinct members of the snapshot.
ValidSplit(d, split) ==
    /\ Len(split) > 0
    /\ \A k \in Idx(split) : FirstIdx(d.members, split[k]) # 0
    /\ \A k, l \in Idx(split) : split[k] = split[l] => k = l

WithoutExpense(d, j) == [d EXCEPT !.expenses = RemoveAt(@, j)]

\* What expense j adds to the expenseShare of member i: the share with the
\* expense in the ledger minus the share without it.
ShareFromExpense(d, j, i) ==
    RSub(recalculateState(d).members[i].expenseShare,
         recalculateState(WithoutExpense(d, j)).members[i].expenseShare)

RMulN(x, k) == Norm(x.n * k, x.d)

\* What expense e charges member i: one share per entry of the split list
\* that names the member.
ChargeOf(d, e, i) ==
    LET split == SplitMembers(d.members, e)
        hits == Cardinality({k \in Idx(split) : FirstIdx(d.members, split[k]) = i})
    IN  IF Len(split) = 0 THEN Zero ELSE RDivN(RMulN(Amount(e), hits), Len(split))

\* The member's share of the expenses currently in the ledger
LedgerShare(d, i) ==
    SumOver([j \in Idx(d.expenses) |-> ChargeOf(d, d.expenses[j], i)], Idx(d.expenses))

\* C2: in every persisted trip document every member has
\* remainingContribution = max(expectedContribution - actualContribution, 0),
\* and every member without customBalance has balance =
\* round2(actualContribution + max(personal - reimbursed, 0) - expenseShare),
\* expenseShare being the member's share of the expenses in the ledger.
C2_DerivedFields ==
    \A i \in Idx(data.members) :
        LET m == data.members[i]
        IN  /\ m.remainingContribution =
                  RMax(RSub(m.expectedContribution, m.actualContribution), Zero)
            /\ ~m.customBalance =>
                  m.balance = Round2(RSub(RAdd(m.actualContribution,
                                               RMax(RSub(m.personal, m.reimbursed), Zero)),
                                          LedgerShare(data, i)))

\* C2 witness: a contribution request was approved for a member who paid an
\* expense from pocket and is charged a share of it.
C2_Witness ==
    /\ last.op = "approveContribution" /\ last.action = "approve" /\ last.status = 200
    /\ \E i \in Idx(data.members) :
          /\ data.members[i].id = last.target
          /\ data.members[i].actualContribution = R(6)
          /\ RLt(Zero, data.members[i].personal)
          /\ RLt(Zero, LedgerShare(data, i))

CountId(members, id) == Cardinality({i \in Idx(members) : members[i].id = id})

\* C5: a member with customBalance = true keeps the stored balance through
\* every later operation but a member update of that member (and but
\* reset-data and the removal of that member, which the claim does not list).
C5_BalanceFrozen ==
    [][\A i \in Idx(data.members) :
          LET m == data.members[i]
          IN  ( /\ m.customBalance
                /\ FirstIdx(data.members, m.id) = i
                /\ ~(last'.op = "updateMember" /\ last'.target = m.id)
                /\ last'.op # "resetData"
                /\ CountId(data'.members, m.id) >= CountId(data.members, m.id) )
              => /\ FirstIdx(data'.members, m.id) # 0
                 /\ data'.members[FirstIdx(data'.members, m.id)].customBalance
                 /\ data'.members[FirstIdx(data'.members, m.id)].balance = m.balance]_vars

\* C5 witness: an expense was added that charges a member whose balance is
\* frozen at 9; the balance is still 9.
C5_Witness ==
    /\ last.op = "addExpense"
    /\ \E i \in Idx(data.members) :
          /\ data.members[i].customBalance
          /\ data.members[i].balance = R(9)
          /\ RLt(Zero, data.members[i].expenseShare)

\* C6: the member at index 0 is never removed by a member deletion or by the
\* approval of a deletion request: DELETE /api/members/:id for that member is
\* answered 403 and changes nothing, and approving a deletion request that
\* names that member only removes the request.
C6_AdminKept ==
    [][ (Len(data.members) > 0 /\ last'.op \in {"deleteMember", "approveDeletion"}) =>
          /\ Len(data'.members) > 0
          /\ data'.members[1].id = data.members[1].id
          /\ data'.members[1].name = data.members[1].name
          /\ (last'.op = "deleteMember" /\ last'.target = data.members[1].id) =>
                (last'.status = 403 /\ data' = data)
          /\ (last'.op = "approveDeletion" /\ last'.target = data.members[1].id) =>
                /\ data'.members = data.members
                /\ Len(data'.pendingDeletions) = Len(data.pendingDeletions) - 1
                /\ data' = [data EXCEPT !.pendingDeletions = data'.pendingDeletions] ]_vars

\* C6 witness: a deletion request naming the first of two members was approved.
C6_Witness ==
    /\ last.op = "approveDeletion" /\ last.action = "approve" /\ last.status = 200
    /\ Len(data.members) = 2
    /\ last.target = data.members[1].id
    /\ data.members[2].id # data.members[1].id

\* C7 as stated: a direct contribution by the admin that exceeds the member's
\* remainingContribution (here: a remainder that is still positive) raises
\* actualContribution by the remaining amount only and raises personal by
\* the excess.
C7_OverpaymentToPersonal ==
    [][ LET i == FirstIdx(data.members, last'.target)
            m == data.members[i]
            excess == RSub(last'.amount, m.remainingContribution)
        IN  ( /\ last'.op = "contribute" /\ last'.status = 200
              /\ RLt(Zero, m.remainingContribution)
              /\ RLt(m.remainingContribution, last'.amount) )
            => /\ data'.members[i].actualContribution =
                      RAdd(m.actualContribution, m.remainingContribution)
               /\ data'.members[i].personal = RAdd(m.personal, excess) ]_vars

\* C10 as stated: every member whose cumulative reimbursed amount is at least
\* the personal amount has balance = round2(actualContribution - expenseShare).
C10_Original ==
    \A i \in Idx(data.members) :
        LET m == data.members[i]
        IN  (RLt(Zero, m.reimbursed) /\ RLe(m.personal, m.reimbursed)) =>
                m.balance = Round2(RSub(m.actualContribution, m.expenseShare))

\* C10 amended: every member without customBalance whose cumulative reimbursed
\* amount is at least the personal amount has balance =
\* round2(actualContribution - expenseShare): the net personal credit is 0,
\* never negative.  (With customBalance the balance stays as it was set.)
C10_NetPersonalClamped ==
    \A i \in Idx(data.members) :
        LET m == data.members[i]
        IN  (~m.customBalance /\ RLt(Zero, m.reimbursed) /\ RLe(m.personal, m.reimbursed)) =>
                m.balance = Round2(RSub(m.actualContribution, m.expenseShare))

\* C10 witness: a member who paid an expense of 5 from pocket was reimbursed
\* 3 twice, more than the personal amount.
C10_Witness ==
    /\ last.op = "reimburse" /\ last.status = 200
    /\ \E i \in Idx(data.members) :
          /\ data.members[i].id = last.target
          /\ ~data.members[i].customBalance
          /\ data.members[i].personal = R(5)
          /\ data.members[i].reimbursed = R(6)

(***************************************************************************)
(* The worked example of the README: a budget of 30000 for 6 members, five *)
(* of whom pay 5000 and one 3000, and one expense of 1200 split between    *)
(* all six and paid from pocket by one of the 5000-payers.  The requests   *)
(* come in any order.                                                      *)
(***************************************************************************)
ScenarioMembers == 6
ScenarioBudget == R(30000)
ScenarioExpense == R(1200)
ScenarioId(i) == "s" \o ToString(i)
ScenarioIds == [i \in 1..ScenarioMembers |-> ScenarioId(i)]
\* What member i pays: the last member pays 3000, the others 5000
ScenarioPayment(i) == IF i = ScenarioMembers THEN R(3000) ELSE R(5000)

RECURSIVE ScenarioTrip(_)
\* The trip after setup and after the first n members were added
ScenarioTrip(n) ==
    IF n = 0
    THEN SetupTrip(EmptyData,
                   [tripName |-> "goa", budget |-> ScenarioBudget,
                    memberCount |-> ScenarioMembers, adminPin |-> "1234",
                    clearData |-> TRUE], DrawCode(Zero, 0)).data
    ELSE AddMember(ScenarioTrip(n - 1), MemberObject(ScenarioId(n), ScenarioId(n), Zero), 0).data

InitScenario ==
    /\ data = ScenarioTrip(ScenarioMembers)
    /\ stamp = 0
    /\ ops = 0
    /\ last = Req("none", "", "", Zero, "", 0)
    /\ setup = NoSetup
    /\ mongo = NoMongo

\* A member who has not paid yet pays the contribution of the example
ScenarioContribute ==
    \E i \in 1..ScenarioMembers :
        /\ data.members[i].actualContribution = Zero
        /\ HandleReq("contribute", ScenarioId(i), ScenarioId(i), ScenarioPayment(i), "admin",
                     Contribute(data, ScenarioId(i), ScenarioPayment(i), TRUE), FALSE, stamp)

\* The expense of the example, paid by one of the 5000-payers
ScenarioAddExpense ==
    \E p \in 1..(ScenarioMembers - 1), t \in {1} :
        /\ Len(data.expenses) = 0
        /\ HandleReq("addExpense", "", ScenarioId(p), ScenarioExpense, "",
                     AddExpense(data, [id |-> "", amount |-> ScenarioExpense,
                                       paidBy |-> ScenarioId(p),
                                       splitBetween |-> ScenarioIds], t),
                     TRUE, t)

NextScenario == ScenarioContribute \/ ScenarioAddExpense

SpecScenario == InitScenario /\ [][NextScenario]_vars

SumActual(d) ==
    SumOver([i \in Idx(d.members) |-> d.members[i].actualContribution], Idx(d.members))

\* Scenario A is complete: all six contributions are in, no expense yet.
ScenarioADone == ops = ScenarioMembers /\ Len(data.expenses) = 0
\* Scenario B is complete: all six contributions and the expense are in.
ScenarioBDone == ops = ScenarioMembers + 1 /\ Len(data.expenses) = 1

PersonalFromExpense(d, j, i) ==
    RSub(recalculateState(d).members[i].personal,
         recalculateState(WithoutExpense(d, j)).members[i].personal)

\* Amounts an expense body can carry: whole, fractional, negative, not a number
AnyAmounts == {R(5), R(1200), Norm(1, 3), R(-3), NaN}

\* The snapshot with the amount of expense j replaced by a
WithAmount(d, j, a) == [d EXCEPT !.expenses[j].amount = a]

\* The expense has no split list and no payer.
Unallocated(e) == Len(e.splitBetween) = 0 /\ e.paidBy = ""

\* C11 (Scenario D): an expense whose splitBetween is empty or absent and that
\* has no paidBy adds zero to every member's expenseShare and zero to every
\* member's personal, whatever its amount.
C11_EmptySplitAllocatesNothing ==
    Recalculated =>
        \A j \in Idx(data.expenses) :
            Unallocated(data.expenses[j]) =>
                \A a \in AnyAmounts, i \in Idx(data.members) :
                    /\ ShareFromExpense(WithAmount(data, j, a), j, i) = Zero
                    /\ PersonalFromExpense(WithAmount(data, j, a), j, i) = Zero

\* C11 witness: a recalculated trip of two members whose ledger holds an
\* expense of 5 without split list and without payer.
C11_Witness ==
    /\ Recalculated /\ Len(data.members) = 2 /\ Len(data.expenses) = 1
    /\ Unallocated(data.expenses[1]) /\ data.expenses[1].amount = R(5)
    /\ data.members[1].expenseShare = Zero /\ data.members[2].expenseShare = Zero

(***************************************************************************)
(* Pending requests                                                        *)
(***************************************************************************)
\* The requests that create a pending entry, and the queue each one fills
PendingQueues ==
    {[op |-> "join", field |-> "pendingMembers"],
     [op |-> "requestExpense", field |-> "pendingExpenses"],
     [op |-> "requestContribution", field |-> "pendingContributions"],
     [op |-> "requestDeletion", field |-> "pendingDeletions"],
     [op |-> "requestBudget", field |-> "pendingBudgetRequests"]}

\* C12: creating a pending request (join, expense, contribution, deletion,
\* budget increase) leaves the member list, every member's fields, the
\* expense list and the budget unchanged: the document after the request is
\* the document before it with one entry appended to the request's queue.
\* An expense or a contribution request always appends its entry.
C12_PendingInert ==
    [][ \A q \in PendingQueues :
          (last'.op = q.op) =>
              /\ (data' # data) =>
                    /\ last'.status = 200
                    /\ Len(data'[q.field]) = Len(data[q.field]) + 1
                    /\ data' = [data EXCEPT ![q.field] =
                                   Append(data[q.field], data'[q.field][Len(data'[q.field])])]
              /\ (q.op \in {"requestExpense", "requestContribution"}) => data' # data ]_vars

\* C12 witness: a contribution of 6 was requested for a member who still owes
\* the whole share; the request is queued and nothing was credited.
C12_Witness ==
    /\ last.op = "requestContribution" /\ last.status = 200 /\ last.amount = R(6)
    /\ Len(data.pendingContributions) = 1
    /\ \E i \in Idx(data.members) :
          /\ data.members[i].id = last.target
          /\ data.members[i].actualContribution = Zero
          /\ RLt(Zero, data.members[i].remainingContribution)

\* The requests that resolve a pending entry, and the queue each one empties
ResolveQueues ==
    {[op |-> "approveMember", field |-> "pendingMembers"],
     [op |-> "approveExpense", field |-> "pendingExpenses"],
     [op |-> "approveContribution", field |-> "pendingContributions"],
     [op |-> "approveDeletion", field |-> "pendingDeletions"]}

\* The trip of the setup form with two contribution requests of the
\* administrator in the queue, made at Date.now() = 1 and Date.now() = t2
\* (t2 = 1: both requests were handled within the same millisecond).
QueuedTrip(t2) ==
    RequestContribution(RequestContribution(StoredTrip, "c1", R(6), 1).data,
                        "c1", R(6), t2).data

InitPending ==
    /\ \E t2 \in {1, 2} : data = QueuedTrip(t2) /\ stamp = t2
    /\ ops = 0
    /\ last = Req("requestContribution", "c1", "c1", R(6), "", 200)
    /\ setup = NoSetup
    /\ mongo = NoMongo

\* The requests that create or resolve pending entries
NextPending ==
    \/ DoJoinTrip
    \/ DoRequestContribution
    \/ DoRequestExpense
    \/ DoRequestDeletion
    \/ DoApproveContribution
    \/ DoApproveExpense
    \/ DoApproveMember
    \/ DoApproveDeletion

SpecPending == InitPending /\ [][NextPending]_vars

\* A pending request that is resolved is removed from its queue whether the
\* action is approve or reject, and a rejection changes nothing else.
ResolvedIsRemoved ==
    [][ \A q \in ResolveQueues :
          (last'.op = q.op /\ last'.status = 200) =>
              LET r == FindById(data[q.field], last'.id)
              IN  /\ r # 0
                  /\ data'[q.field] = RemoveAt(data[q.field], r)
                  /\ (last'.action = "reject") =>
                         data' = [data EXCEPT ![q.field] = RemoveAt(data[q.field], r)] ]_vars

\* C13: every pending request that is resolved is removed from its queue
\* whether the action is approve or reject, a rejection changes nothing else
\* in the trip, and a request id that has been resolved cannot be resolved a
\* second time: the attempt that follows the resolution is answered 404.
C13_ResolvedOnce ==
    [][ /\ \A q \in ResolveQueues :
              (last'.op = q.op /\ last'.status = 200) =>
                  LET r == FindById(data[q.field], last'.id)
                  IN  /\ r # 0
                      /\ data'[q.field] = RemoveAt(data[q.field], r)
                      /\ (last'.action = "reject") =>
                             data' = [data EXCEPT ![q.field] = RemoveAt(data[q.field], r)]
        /\ \A q \in ResolveQueues :
              (last.op = q.op /\ last.status = 200 /\ last'.op = q.op /\ last'.id = last.id)
                  => last'.status = 404 ]_vars

(***************************************************************************)
(* Error answers                                                           *)
(***************************************************************************)
\* The HTTP statuses of the error answers of the handlers
ErrorStatuses == {400, 401, 403, 404}

\* C14: every request that is answered with an error status (wrong trip code
\* or admin PIN on join, member limit exceeded, unknown member id, unknown
\* request id, non-numeric direct contribution, non-numeric or non-positive
\* reimbursement or refund, direct contribution without the admin flag,
\* deletion of the admin, duplicate deletion request) leaves the persisted
\* trip document exactly as it was.
C14_ErrorsChangeNothing ==
    [][ (last'.status \in ErrorStatuses) => data' = data ]_vars

\* C14 witness: a direct contribution of 6 without the admin flag was
\* answered 403 for a member of a trip; nothing was credited.
C14_Witness ==
    /\ last.op = "contribute" /\ last.status = 403 /\ last.amount = R(6)
    /\ \E i \in Idx(data.members) :
          /\ data.members[i].id = last.target
          /\ data.members[i].actualContribution = Zero

(***************************************************************************)
(* POST /api/trip while MongoDB is connected.  The handler is an async     *)
(* function: it reads data.json, fills its copy of the document in, and,   *)
(* when the copy has no trip code, awaits generateTripCode, which awaits   *)
(* Trip.findOne.  Until the lookup answers the event loop runs the         *)
(* handlers of other requests; then the handler recalculates its copy and  *)
(* writes it.  The other handlers of server.js run from readData to        *)
(* writeData without an await.                                             *)
(***************************************************************************)

\* POST /api/trip up to the call of generateTripCode: the handler's copy
SetupRead(d, body) ==
    LET cleared == IF body.clearData
                   THEN [d EXCEPT !.members = <<>>, !.expenses = <<>>,
                                  !.pendingExpenses = <<>>, !.pendingMembers = <<>>,
                                  !.pendingContributions = <<>>,
                                  !.pendingBudgetRequests = <<>>,
                                  !.pendingDeletions = <<>>, !.tripCode = NoCode]
                   ELSE d
    IN  [cleared EXCEPT !.tripName = body.tripName,
                        !.budget = OrZero(body.budget),
                        !.memberCount = body.memberCount,
                        !.adminPin = IF body.adminPin # "" THEN body.adminPin ELSE @]

\* POST /api/trip from the answer of generateTripCode on: what is written
SetupWrite(doc, code) == recalculateState([doc EXCEPT !.tripCode = code])

\* Request bodies of POST /api/trip
SetupBodies ==
    {[tripName |-> "goa", budget |-> b, memberCount |-> mc, adminPin |-> pin,
      clearData |-> clear] :
         b \in Budgets, mc \in MemberCounts, pin \in Pins, clear \in BOOLEAN}

\* The handler has to wait for MongoDB: its copy has no trip code and
\* generateTripCode looks the drawn code up with Trip.findOne
SetupAwaits(d, body) == mongo.connected /\ SetupRead(d, body).tripCode = NoCode

\* MongoDB connected, holding the trips of earlier runs
InitConcurrent ==
    /\ data \in {EmptyData, StoredTrip}
    /\ stamp = 0
    /\ ops = 0
    /\ last = Req("none", "", "", Zero, "", 0)
    /\ setup = NoSetup
    /\ mongo \in {[connected |-> TRUE, codes |-> cs, failing |-> FALSE] :
                     cs \in SUBSET Codes}

\* The handler reads the file and suspends in generateTripCode
SetupBegin ==
    \E body \in SetupBodies :
        /\ ops < MaxOps
        /\ ~setup.busy
        /\ SetupAwaits(data, body)
        /\ setup' = [busy |-> TRUE, doc |-> SetupRead(data, body), body |-> body]
        /\ ops' = ops + 1
        /\ last' = Req("setupBegin", "", "", body.budget,
                       IF body.clearData THEN "clear" ELSE "", 0)
        /\ UNCHANGED <<data, stamp, mongo>>

\* The handler's copy has a trip code: no await, the handler runs through
SetupDirect ==
    \E body \in SetupBodies, code \in GeneratedCodes :
        /\ ~SetupAwaits(data, body)
        /\ Handle("setup", "", "", body.budget, IF body.clearData THEN "clear" ELSE "",
                  SetupTrip(data, body, code), FALSE, stamp)

\* generateTripCode answers: the handler recalculates its copy, writes it
\* and responds
SetupEnd ==
    \E code \in GeneratedCodes :
        /\ setup.busy
        /\ data' = SetupWrite(setup.doc, code)
        /\ last' = Req("setup", "", "", setup.body.budget,
                       IF setup.body.clearData THEN "clear" ELSE "", 200)
        /\ setup' = NoSetup
        /\ UNCHANGED <<stamp, ops, mongo>>

\* syncToMongoDB, started by writeData and running in the background: the
\* first trip of the collection takes the fields of the document written,
\* or the document becomes the first trip
SyncToMongoDB ==
    /\ mongo.connected
    /\ \E old \in (IF mongo.codes = {} THEN {NoCode} ELSE mongo.codes) :
          mongo' = [mongo EXCEPT !.codes = (@ \ {old}) \cup {data.tripCode}]
    /\ UNCHANGED <<data, stamp, ops, last, setup>>

NextConcurrent ==
    \/ SetupBegin
    \/ SetupDirect
    \/ SetupEnd
    \/ SyncToMongoDB
    \/ DoAddMember
    \/ DoContribute
    \/ DoAddExpense

SpecConcurrent == InitConcurrent /\ [][NextConcurrent]_vars

\* C15: requests on the trip are serialized, no update is lost: when
\* POST /api/trip writes, the file becomes what the handler makes of the
\* file as it is at that moment, whatever was handled while it waited.
C15_SetupSerialized ==
    [][ (setup.busy /\ ~setup'.busy) =>
            \E code \in Codes : data' = SetupTrip(data, setup.body, code).data ]_vars

(***************************************************************************)
(* generateTripCode as POST /api/trip calls it, for every trip code the    *)
(* file may hold and every state of MongoDB: not connected, connected      *)
(* with any of the codes stored, with lookups that answer or throw.        *)
(***************************************************************************)
MongoStates == [connected : BOOLEAN, codes : SUBSET Codes, failing : BOOLEAN]

InitTripCode ==
    /\ data \in {EmptyData, StoredTrip}
    /\ stamp = 0
    /\ ops = 0
    /\ last = Req("none", "", "", Zero, "", 0)
    /\ setup = NoSetup
    /\ mongo \in MongoStates

NextTripCode == DoSetupTrip \/ DoAddMember \/ SyncToMongoDB

SpecTripCode == InitTripCode /\ [][NextTripCode]_vars

\* The step is a POST /api/trip that calls generateTripCode
GeneratesCode == last'.op = "setup" /\ (last'.action = "clear" \/ data.tripCode = NoCode)

\* Six characters of chars
WellFormedCode(code) ==
    /\ Len(code) = CodeLength
    /\ \A i \in 1..Len(code) : code[i] \in 0..(CharsLength - 1)

\* The code generateTripCode returns has six characters of A-Z0-9
TripCodeWellFormed == [][ GeneratesCode => WellFormedCode(data'.tripCode) ]_vars

\* C16: the code generateTripCode returns has six characters of A-Z0-9 and
\* differs from the code of every existing trip: the one in data.json and,
\* when MongoDB is connected, those stored there.
C16_TripCodeUnique ==
    [][ GeneratesCode =>
            /\ WellFormedCode(data'.tripCode)
            /\ data'.tripCode # data.tripCode
            /\ mongo.connected => data'.tripCode \notin mongo.codes ]_vars

(***************************************************************************)
(* Member ids                                                              *)
(***************************************************************************)

\* C17: the ids of the members of the trip are pairwise different after
\* any sequence of direct additions, with or without an id in the request,
\* and of join approvals.
C17_MemberIdsUnique ==
    \A i, j \in Idx(data.members) :
        i # j => data.members[i].id # data.members[j].id

(***************************************************************************)
(* Deleting what is not there                                              *)
(***************************************************************************)

\* DELETE /api/members/:id with an id that no member has is answered 404
\* and leaves the document as it is
AbsentMemberNotFound ==
    [][ (last'.op = "deleteMember" /\ last'.id \notin MemberIds) =>
            last'.status = 404 /\ data' = data ]_vars

\* C18: DELETE /api/expenses/:id with an id that no expense has is answered
\* not found (404), as the deletion of an absent member is.
C18_AbsentExpenseNotFound ==
    [][ (last'.op = "deleteExpense" /\ last'.id \notin SeqIds(data.expenses)) =>
            last'.status = 404 ]_vars

(***************************************************************************)
(* The engine on malformed snapshots: a document without budget, members   *)
(* without reimbursed or actualContribution (or with values that are not   *)
(* numbers), expenses whose amount does not parse.  NaN stands for the     *)
(* absent and for the non-numeric value.                                   *)
(***************************************************************************)
MalformedFlags == {<<FALSE, FALSE, FALSE>>, <<TRUE, FALSE, FALSE>>, <<TRUE, TRUE, TRUE>>}

MalformedMember(i, q) ==
    [EngMember(i, q.f) EXCEPT !.actualContribution = q.a, !.reimbursed = q.r]

MalformedMemberLists(n) ==
    {[i \in 1..n |-> MalformedMember(i, qs[i])] :
        qs \in [1..n -> [f : MalformedFlags, a : {NaN, R(3)}, r : {NaN, R(2)}]]}

MalformedExpenseLists(n) ==
    UNION {[1..k -> {[id |-> "e", amount |-> a, paidBy |-> p, splitBetween |-> sb] :
                        a \in {NaN, R(5)}, p \in {"pool", EngId(1)},
                        sb \in {<<>>, EngIdsOf(n)}}] : k \in 0..MaxEngExpenses}

MalformedSnapshots(ms) ==
    {[EmptyData EXCEPT !.budget = b, !.memberCount = 2,
                       !.members = ms, !.expenses = es] :
        b \in {NaN, R(10)}, es \in MalformedExpenseLists(Len(ms))}

InitMalformed ==
    /\ \E n \in 0..MaxEngMembers :
          \E ms \in MalformedMemberLists(n) : data \in MalformedSnapshots(ms)
    /\ stamp = 0
    /\ ops = 0
    /\ last = Req("none", "", "", Zero, "", 0)
    /\ setup = NoSetup
    /\ mongo = NoMongo

SpecMalformed == InitMalformed /\ [][NextEngine]_vars

\* recalculateState turns an absent or non-numeric reimbursed and
\* actualContribution into 0, and expenses whose amounts do not parse add
\* nothing to anybody's share or personal
MembersAndAmountsCoerced ==
    [][ last'.op = "recalc" =>
          \A i \in Idx(data.members) :
              LET m == data.members[i]
                  n == data'.members[i]
              IN  /\ ~IsNum(m.reimbursed) => n.reimbursed = Zero
                  /\ ~IsNum(m.actualContribution) => n.actualContribution = Zero
                  /\ IsNum(n.reimbursed) /\ IsNum(n.actualContribution)
                  /\ IsNum(n.expenseShare) /\ IsNum(n.personal) /\ IsNum(n.balance)
                  /\ (\A j \in Idx(data.expenses) : ~IsNum(data.expenses[j].amount)) =>
                         /\ n.expenseShare = Zero
                         /\ ~m.customPersonal => n.personal = Zero ]_vars

\* C19: recalculateState coerces malformed numerics to zero: a missing
\* budget gives the members without a custom target the expected
\* contribution 0, and every derived field of every member is a number.
C19_MissingBudgetCoerced ==
    [][ last'.op = "recalc" =>
          \A i \in Idx(data.members) :
              LET m == data.members[i]
                  n == data'.members[i]
              IN  /\ (~IsNum(data.budget) /\ ~m.customExpected) =>
                         n.expectedContribution = Zero
                  /\ IsNum(n.expectedContribution) /\ IsNum(n.remainingContribution)
                  /\ IsNum(n.expenseShare) /\ IsNum(n.personal) /\ IsNum(n.balance) ]_vars

(***************************************************************************)
(* The split derived from paidBy                                           *)
(***************************************************************************)

\* The expense has no split list but a payer: the legacy format
LegacySplit(e) == Len(e.splitBetween) = 0 /\ e.paidBy # ""

\* paidBy names the pool
PoolPaid(e) == e.paidBy = "pool" \/ e.paidBy = "all_members"

\* C20: an expense without a non-empty splitBetween takes its split from
\* paidBy: for 'pool' and 'all_members' every current member's expenseShare
\* grows by the amount divided by the number of members; for a member id
\* the whole amount goes to that member's expenseShare and nothing to the
\* others.
C20_SplitFromPaidBy ==
    Recalculated =>
        \A j \in Idx(data.expenses) :
            LET e == data.expenses[j]
            IN  LegacySplit(e) =>
                  \A i \in Idx(data.members) :
                      ShareFromExpense(data, j, i) =
                          IF PoolPaid(e) THEN RDivN(Amount(e), Len(data.members))
                          ELSE IF data.members[i].id = e.paidBy THEN Amount(e)
                          ELSE Zero

\* C20 witness: a recalculated trip of two members whose only expense, 5
\* paid by 'all_members' without split list, charged 5/2 to each.
C20_Witness ==
    /\ Recalculated /\ Len(data.members) = 2 /\ Len(data.expenses) = 1
    /\ LegacySplit(data.expenses[1]) /\ data.expenses[1].paidBy = "all_members"
    /\ data.members[1].expenseShare = Norm(5, 2)
    /\ data.members[2].expenseShare = Norm(5, 2)

\* A recalculated trip of two members whose only expense, 5 paid by the
\* first member without split list, charged 5 to the payer and 0 to the other.
PayerChargedWhole ==
    /\ Recalculated /\ Len(data.members) = 2 /\ Len(data.expenses) = 1
    /\ LegacySplit(data.expenses[1]) /\ data.expenses[1].paidBy = data.members[1].id
    /\ data.members[1].expenseShare = R(5)
    /\ data.members[2].expenseShare = Zero

(***************************************************************************)
(* The engine on ledgers of several expenses: snapshots of one or two      *)
(* members, with and without a frozen personal, and up to                  *)
(* MaxLedgerExpenses expenses of different amounts, paid by the pool, by a *)
(* member or by somebody who is not a member (any more).                   *)
(***************************************************************************)
MaxLedgerExpenses == 2

LedgerFlags == {<<FALSE, FALSE, FALSE>>, <<FALSE, TRUE, FALSE>>, <<TRUE, TRUE, TRUE>>}

LedgerMemberLists(n) == {[i \in 1..n |-> EngMember(i, fs[i])] : fs \in [1..n -> LedgerFlags]}

LedgerAmounts == {R(5), Norm(1, 3)}

LedgerExpenseChoices(n) ==
    {[id |-> "e", amount |-> a, paidBy |-> p, splitBetween |-> sb] :
        a \in LedgerAmounts,
        p \in {"", "pool", "all_members", EngId(1), EngId(2)},
        sb \in {<<>>, <<EngId(1)>>, EngIdsOf(n)}}

LedgerExpenseLists(n) ==
    UNION {[1..k -> LedgerExpenseChoices(n)] : k \in 0..MaxLedgerExpenses}

LedgerSnapshots(ms) ==
    {[EmptyData EXCEPT !.budget = R(10), !.memberCount = 2,
                       !.members = ms, !.expenses = es] :
        es \in LedgerExpenseLists(Len(ms))}

InitLedger ==
    /\ \E n \in 1..MaxEngMembers :
          \E ms \in LedgerMemberLists(n) : data \in LedgerSnapshots(ms)
    /\ stamp = 0
    /\ ops = 0
    /\ last = Req("none", "", "", Zero, "", 0)
    /\ setup = NoSetup
    /\ mongo = NoMongo

SpecLedger == InitLedger /\ [][NextEngine]_vars

\* The sum of the amounts of the expenses whose paidBy is id
PaidSum(expenses, id) ==
    SumOver([j \in Idx(expenses) |->
                IF expenses[j].paidBy = id THEN Amount(expenses[j]) ELSE Zero],
            Idx(expenses))

\* C21: after recalculateState the personal of a member whose customPersonal
\* is false is the sum of the amounts of the expenses paid by that member
\* (0 if there is none; what the pool paid is nobody's personal), and the
\* personal of a member whose customPersonal is true is what it was before,
\* whoever the expenses name as payer.
C21_PersonalAccumulation ==
    [][ last'.op = "recalc" =>
          \A i \in Idx(data.members) :
              LET m == data.members[i]
              IN  data'.members[i].personal =
                      IF m.customPersonal THEN m.personal
                      ELSE PaidSum(data.expenses, m.id) ]_vars

\* C21 witness: a recalculated trip of two members and two expenses, 5 and
\* 1/3, both paid by the first member: the first member's personal is 16/3,
\* the second member's personal is frozen at 7.
C21_Witness ==
    /\ Recalculated /\ Len(data.members) = 2 /\ Len(data.expenses) = 2
    /\ \A j \in Idx(data.expenses) : data.expenses[j].paidBy = data.members[1].id
    /\ data.expenses[1].amount # data.expenses[2].amount
    /\ ~data.members[1].customPersonal /\ data.members[1].personal = Norm(16, 3)
    /\ data.members[2].customPersonal /\ data.members[2].personal = R(7)

\* A recalculated trip whose member with a frozen personal is named as the
\* payer of two expenses and keeps the personal 7
FrozenPayerKept ==
    /\ Recalculated /\ Len(data.expenses) = 2
    /\ \A j \in Idx(data.expenses) : data.expenses[j].paidBy = data.members[1].id
    /\ data.members[1].customPersonal /\ data.members[1].personal = R(7)

(***************************************************************************)
(* The order of the expense list                                           *)
(***************************************************************************)

\* The permutations of 1..n
Perms(n) == {f \in [1..n -> 1..n] : \A a, b \in 1..n : f[a] = f[b] => a = b}

\* The list s in the order f
Permuted(s, f) == [k \in Idx(s) |-> s[f[k]]]

\* With sums that do not round, recalculateState gives every member the
\* same fields for every order of the same expenses
OrderIndependentWithoutRounding ==
    Recalculated =>
        \A f \in Perms(Len(data.expenses)) :
            recalculateState([data EXCEPT !.expenses = Permuted(@, f)]).members
                = data.members

(***************************************************************************)
(* The sums of the expense loop as JavaScript computes them.  A JavaScript *)
(* number is an IEEE 754 binary64 value: here a significand m of 53 bits   *)
(* and an exponent e, the value being m * 2^e (m = 0 for zero).  The       *)
(* significand is kept in three limbs of 20 bits, lowest first.  Only the  *)
(* sum of values that are not negative is needed: payer.personal += amount *)
(* with amounts above zero.                                                *)
(***************************************************************************)
Limb == 2^20

BigZero == <<0, 0, 0>>

BigAdd(a, b) ==
    LET s1 == a[1] + b[1]
        s2 == a[2] + b[2] + (s1 \div Limb)
        s3 == a[3] + b[3] + (s2 \div Limb)
    IN  <<s1 % Limb, s2 % Limb, s3>>

\* a * 8
BigTimes8(a) ==
    LET s1 == a[1] * 8
        s2 == a[2] * 8 + (s1 \div Limb)
        s3 == a[3] * 8 + (s2 \div Limb)
    IN  <<s1 % Limb, s2 % Limb, s3>>

\* a shifted right by one bit
BigHalf(a) ==
    <<(a[1] \div 2) + (a[2] % 2) * (Limb \div 2),
      (a[2] \div 2) + (a[3] % 2) * (Limb \div 2),
      a[3] \div 2>>

\* a shifted right by one bit, a bit that falls out staying in the lowest
\* bit (the sticky bit of the rounding)
BigHalfSticky(a) ==
    LET h == BigHalf(a)
    IN  IF a[1] % 2 = 1 /\ h[1] % 2 = 0 THEN [h EXCEPT ![1] = @ + 1] ELSE h

\* a shifted right by k bits, sticky
RECURSIVE ShiftSticky(_, _)
ShiftSticky(a, k) ==
    IF k = 0 \/ (a[3] = 0 /\ a[2] = 0 /\ a[1] <= 1) THEN a
    ELSE ShiftSticky(BigHalfSticky(a), k - 1)

DZero == [m |-> BigZero, e |-> 0]

\* x + y for x, y >= 0, rounded to the nearest value, a tie to the even
\* significand: the significands get three more bits (guard, round and
\* sticky), the smaller operand is aligned to the larger, and the sum is
\* rounded back to 53 bits.
DAdd(x, y) ==
    IF x.m = BigZero THEN y
    ELSE IF y.m = BigZero THEN x
    ELSE LET hi == IF x.e >= y.e THEN x ELSE y
             lo == IF x.e >= y.e THEN y ELSE x
             sum == BigAdd(BigTimes8(hi.m), ShiftSticky(BigTimes8(lo.m), hi.e - lo.e))
             carry == sum[3] >= 2^16
             norm == IF carry THEN BigHalfSticky(sum) ELSE sum
             e == IF carry THEN hi.e + 1 ELSE hi.e
             low == norm[1] % 8
             q == BigHalf(BigHalf(BigHalf(norm)))
             up == low > 4 \/ (low = 4 /\ q[1] % 2 = 1)
             r == IF up THEN BigAdd(q, <<1, 0, 0>>) ELSE q
         IN  IF r[3] >= 2^13 THEN [m |-> BigHalf(r), e |-> e + 1]
             ELSE [m |-> r, e |-> e]

\* The numbers 0.1, 0.2 and 0.3 of a request body as JSON.parse reads them
Tenth == [m |-> <<629146, 629145, 6553>>, e |-> -56]
Fifth == [m |-> <<629146, 629145, 6553>>, e |-> -55]
ThreeTenths == [m |-> <<209715, 209715, 4915>>, e |-> -54]

FloatAmounts == {Tenth, Fifth, ThreeTenths}

\* The expense loop for the personal of the member id, from expense k on:
\* payer.personal += amount, in list order
RECURSIVE PersonalSum(_, _, _, _)
PersonalSum(expenses, id, k, acc) ==
    IF k > Len(expenses) THEN acc
    ELSE PersonalSum(expenses, id, k + 1,
                     IF expenses[k].paidBy = id THEN DAdd(acc, expenses[k].amount)
                     ELSE acc)

\* recalculateState as far as the personal of the members goes
RecalculatePersonal(d) ==
    [d EXCEPT !.members =
        [i \in Idx(d.members) |->
            IF d.members[i].customPersonal THEN d.members[i]
            ELSE [d.members[i] EXCEPT
                     !.personal = PersonalSum(d.expenses, d.members[i].id, 1, DZero)]]]

MaxFloatExpenses == 3

FloatExpenseLists ==
    UNION {[1..k -> {[id |-> "e", amount |-> a, paidBy |-> p, splitBetween |-> <<>>] :
                        a \in FloatAmounts, p \in {"pool", EngId(1)}}] :
              k \in 0..MaxFloatExpenses}

\* A trip of one member and a ledger of up to MaxFloatExpenses expenses
InitFloat ==
    /\ data \in {[members |-> <<[id |-> EngId(1), personal |-> DZero,
                                 customPersonal |-> FALSE]>>,
                  expenses |-> es] : es \in FloatExpenseLists}
    /\ stamp = 0
    /\ ops = 0
    /\ last = Req("none", "", "", Zero, "", 0)
    /\ setup = NoSetup
    /\ mongo = NoMongo

RecalculateFloat ==
    /\ ops < MaxRecalcs
    /\ data' = RecalculatePersonal(data)
    /\ ops' = ops + 1
    /\ last' = Req("recalc", "", "", Zero, "", 200)
    /\ UNCHANGED <<stamp, setup, mongo>>

SpecFloat == InitFloat /\ [][RecalculateFloat]_vars

ViaRequest(d, id, a) ==
    ApproveContribution(RequestContribution(d, id, a, 0).data, TimeId(0), "approve").data

\* The fields of a member that a contribution bears on
ContributionFields(m) ==
    <<m.actualContribution, m.personal, m.remainingContribution, m.balance>>

\* C23: the two contribution paths apply the same rule: from the same trip
\* state, the administrator's direct contribution of a for a member and the
\* approval of a pending contribution request of a for that member leave
\* the member with the same actualContribution, personal,
\* remainingContribution and balance.
C23_SameContributionRule ==
    [][ (last'.op = "contribute" /\ last'.status = 200) =>
            LET i == FirstIdx(data.members, last'.id)
            IN  ContributionFields(data'.members[i]) =
                    ContributionFields(ViaRequest(data, last'.id, last'.amount).members[i])
      ]_vars

(***************************************************************************)
(* Joining: the trip the setup form left (target of two members, the       *)
(* administrator being the first), join requests and their approvals and   *)
(* rejections, and nothing else.                                           *)
(***************************************************************************)
MaxJoinOps == 4

JoinNames == {"bob", "cat"}

InitJoin ==
    /\ data = StoredTrip
    /\ stamp = 0
    /\ ops = 0
    /\ last = Req("none", "", "", Zero, "", 0)
    /\ setup = NoSetup
    /\ mongo = NoMongo

JoinRequest ==
    \E code \in Codes, name \in JoinNames, t \in Stamps :
        LET r == JoinTrip(data, code, name, "", t)
        IN  /\ ops < MaxJoinOps
            /\ HandleReq("join", name, "", Zero, "", r, r.data # data, t)

JoinApproval ==
    \E id \in SeqIds(data.pendingMembers) \cup {UnknownId}, action \in Actions,
       t \in Stamps :
        LET r == ApproveMember(data, id, action, t)
        IN  /\ ops < MaxJoinOps
            /\ HandleReq("approveMember", id, "", Zero, action, r,
                         Len(r.data.members) > Len(data.members), t)

NextJoin == JoinRequest \/ JoinApproval

SpecJoin == InitJoin /\ [][NextJoin]_vars

\* C24: through join requests and their approvals alone the number of
\* members never exceeds the memberCount of the trip.
C24_MemberLimit == Len(data.members) <= data.memberCount

(***************************************************************************)
(* Conservation of the expense cost                                        *)
(***************************************************************************)

\* The sum of the expenseShare of the current members
SumShares(d) ==
    SumOver([i \in Idx(d.members) |-> d.members[i].expenseShare], Idx(d.members))

\* The sum of the amounts of the expenses whose split set is not empty
SumSplitAmounts(d) ==
    SumOver([j \in Idx(d.expenses) |->
                IF Len(SplitMembers(d.members, d.expenses[j])) > 0
                THEN Amount(d.expenses[j]) ELSE Zero],
            Idx(d.expenses))

\* C25: the expense cost is conserved: after an expense was added or a
\* member was added or deleted, the expenseShare of the current members
\* sum to the amounts of the expenses with a non-empty split set; the
\* shares of a deleted member go to the remaining members.
C25_CostConserved ==
    (last.op \in {"addExpense", "addMember", "deleteMember"} /\ last.status = 200) =>
        SumShares(data) = SumSplitAmounts(data)

(***************************************************************************)
(* The sign of the money paid in                                           *)
(***************************************************************************)

\* C26: the actualContribution of a member, the money paid toward the
\* budget so far, is never negative, whatever contributions, contribution
\* requests, approvals and refunds were handled.
C26_ContributionNotNegative ==
    \A i \in Idx(data.members) :
        IsNum(data.members[i].actualContribution) =>
            RLe(Zero, data.members[i].actualContribution)

(***************************************************************************)
(* The MongoDB backup.  writeData writes data.json and starts              *)
(* syncToMongoDB without waiting for it; a sync awaits Trip.findOne(),     *)
(* takes the first trip of the collection (or makes a new one), gives it   *)
(* the fields of the document it was started with and awaits trip.save().  *)
(* Between its two awaits other handlers write and other syncs find and    *)
(* save.  Here mongo also holds the trips of the collection and the syncs  *)
(* under way; a save stores the whole document.                            *)
(***************************************************************************)
MaxSyncWrites == 2

\* MongoDB with the trips ts and the syncs ss under way
BackupState(ts, ss) ==
    [connected |-> TRUE, codes |-> {ts[i].tripCode : i \in Idx(ts)}, failing |-> FALSE,
     trips |-> ts, syncs |-> ss]

\* The collection is empty or holds the document of data.json
InitSync ==
    /\ data = StoredTrip
    /\ stamp = 0
    /\ ops = 0
    /\ last = Req("none", "", "", Zero, "", 0)
    /\ setup = NoSetup
    /\ mongo \in {BackupState(<<>>, <<>>), BackupState(<<StoredTrip>>, <<>>)}

\* writeData(d) at the end of a handler that answered r
WriteData(op, r, usedT, t) ==
    /\ ops < MaxSyncWrites
    /\ data' = r.data
    /\ stamp' = IF usedT THEN t ELSE stamp
    /\ ops' = ops + 1
    /\ last' = Req(op, "", "", Zero, "", r.status)
    /\ mongo' = BackupState(mongo.trips,
                            Append(mongo.syncs, [doc |-> r.data, phase |-> "find",
                                                 found |-> FALSE]))
    /\ UNCHANGED setup

\* POST /api/trip of a trip that has its code: no await, the new budget is
\* written
SyncedSetup ==
    \E b \in Budgets \cup {R(14)} :
        /\ data.tripCode # NoCode
        /\ WriteData("setup",
                     SetupTrip(data, [tripName |-> "goa", budget |-> b, memberCount |-> 2,
                                      adminPin |-> "", clearData |-> FALSE], data.tripCode),
                     FALSE, stamp)

\* POST /api/members
SyncedAddMember ==
    \E t \in Stamps :
        /\ Len(data.members) < MaxMembers
        /\ WriteData("addMember", AddMember(data, MemberObject("", "ann", NaN), t), TRUE, t)

\* Trip.findOne() of sync k answers
SyncFind ==
    \E k \in Idx(mongo.syncs) :
        /\ mongo.syncs[k].phase = "find"
        /\ mongo' = BackupState(mongo.trips,
                                [mongo.syncs EXCEPT ![k].phase = "save",
                                                    ![k].found = Len(mongo.trips) > 0])
        /\ UNCHANGED <<data, stamp, ops, last, setup>>

\* trip.save() of sync k is carried out: the trip found takes the fields of
\* the sync's document, or the new trip is inserted
SyncSave ==
    \E k \in Idx(mongo.syncs) :
        /\ mongo.syncs[k].phase = "save"
        /\ mongo' = BackupState(IF mongo.syncs[k].found
                                THEN [mongo.trips EXCEPT ![1] = mongo.syncs[k].doc]
                                ELSE Append(mongo.trips, mongo.syncs[k].doc),
                                RemoveAt(mongo.syncs, k))
        /\ UNCHANGED <<data, stamp, ops, last, setup>>

NextSync == SyncedSetup \/ SyncedAddMember \/ SyncFind \/ SyncSave

SpecSync == InitSync /\ [][NextSync]_vars

\* C27: the backup converges to the primary: when every sync that was
\* started has completed, the collection holds one trip and that trip has
\* the data of the last writeData.
C27_BackupConverges ==
    (ops > 0 /\ mongo.syncs = <<>>) => mongo.trips = <<data>>

(***************************************************************************)
(* POST /api/reset-data                                                    *)
(***************************************************************************)

\* The step is a reset-data on a trip with at least one member
ResetsData == last'.op = "resetData" /\ Len(data.members) > 0

\* What reset-data leaves of the trip, the expected contribution of the
\* remaining member aside
ResetOutcome ==
    /\ Len(data'.members) = 1
    /\ data'.members[1].id = data.members[1].id
    /\ data'.members[1].name = data.members[1].name
    /\ data'.members[1].actualContribution = Zero
    /\ data'.members[1].personal = Zero
    /\ data'.members[1].reimbursed = Zero
    /\ data'.members[1].balance = Zero
    /\ data'.expenses = <<>>
    /\ data'.pendingExpenses = <<>> /\ data'.pendingMembers = <<>>
    /\ data'.pendingContributions = <<>> /\ data'.pendingBudgetRequests = <<>>
    /\ data'.pendingDeletions = <<>>
    /\ data'.tripName = data.tripName /\ data'.tripCode = data.tripCode
    /\ data'.budget = data.budget /\ data'.memberCount = data.memberCount
    /\ data'.adminPin = data.adminPin

\* reset-data keeps the first member with zero actualContribution, personal,
\* reimbursed and balance, empties the ledger and the queues and keeps the
\* trip's name, code, budget, memberCount and PIN
ResetKeepsTripAndAdmin == [][ ResetsData => ResetOutcome ]_vars

\* C28: after reset-data on a trip with at least one member the member
\* list is the former first member with actualContribution, personal,
\* reimbursed and balance 0 and expectedContribution equal to the budget,
\* the ledger and the five queues are empty and the trip's name, code,
\* budget, memberCount and PIN are unchanged, whatever override flags the
\* member carried.
C28_ResetData ==
    [][ ResetsData =>
            /\ ResetOutcome
            /\ data'.members[1].expectedContribution = data.budget ]_vars

(***************************************************************************)
(* Requests that outlive their member: the trip of the setup form with a   *)
(* second member, bob (id "1"), an expense of the pool, and a contribution *)
(* request and a deletion request of bob in the queues.  Bob is then       *)
(* deleted, directly or by the approval of the deletion request, and the   *)
(* requests are resolved.                                                  *)
(***************************************************************************)
OrphanTrip ==
    LET joined == AddMember(StoredTrip, MemberObject("", "bob", NaN), 1).data
        spent == AddExpense(joined, [id |-> "", amount |-> R(5), paidBy |-> "pool",
                                     splitBetween |-> <<>>], 1).data
        asked == RequestContribution(spent, "1", R(6), 2).data
    IN  RequestDeletion(asked, "1", 3).data

InitOrphan ==
    /\ data = OrphanTrip
    /\ stamp = 3
    /\ ops = 0
    /\ last = Req("requestDeletion", "1", "1", Zero, "", 200)
    /\ setup = NoSetup
    /\ mongo = NoMongo

NextOrphan ==
    \/ DoDeleteMember
    \/ DoApproveContribution
    \/ DoApproveDeletion
    \/ DoContribute
    \/ DoRefund

SpecOrphan == InitOrphan /\ [][NextOrphan]_vars

\* The queue a request of the step was taken from
OrphanQueues ==
    {[op |-> "approveContribution", field |-> "pendingContributions"],
     [op |-> "approveDeletion", field |-> "pendingDeletions"]}

\* C29: the approval of a pending contribution request or of a pending
\* deletion request whose member is no longer in the trip changes no field
\* of any member and nothing else of the ledger, and removes the request
\* from its queue.
C29_OrphanRequestInert ==
    [][ \A q \in OrphanQueues :
          (/\ last'.op = q.op /\ last'.status = 200 /\ last'.action = "approve"
           /\ FirstIdx(data.members, last'.target) = 0) =>
              /\ FindById(data[q.field], last'.id) # 0
              /\ data' = [data EXCEPT ![q.field] =
                                         RemoveAt(@, FindById(data[q.field], last'.id))]
      ]_vars

\* C29 witness: bob was deleted, then the contribution request of bob was
\* approved: the request is gone and the administrator is the only member.
C29_Witness ==
    /\ last.op = "approveContribution" /\ last.action = "approve" /\ last.status = 200
    /\ last.target = "1"
    /\ Len(data.members) = 1
    /\ data.pendingContributions = <<>>
    /\ data.members[1].actualContribution = Zero

\* Bob was deleted directly, then the deletion request of bob was approved
OrphanDeletionApproved ==
    /\ last.op = "approveDeletion" /\ last.action = "approve" /\ last.status = 200
    /\ last.target = "1"
    /\ Len(data.members) = 1
    /\ data.pendingDeletions = <<>>
    /\ Len(data.pendingContributions) = 1

(***************************************************************************)
(* The loop of generateTripCode, one attempt per step.  POST /api/trip has *)
(* read the file and called generateTripCode; setup also holds the         *)
(* variables of the call: attempts, code and isUnique.  An attempt draws a *)
(* code, reads the file, asks MongoDB when it is connected (the lookup     *)
(* answers or throws) and counts.                                          *)
(***************************************************************************)

\* Mutant of LoopContinues: the loop of unnamed/part_001, without the cap
\* on the attempts.
LoopContinues_Unbounded(call) == ~call.isUnique

\* while (!isUnique && attempts < maxAttempts)
LoopContinues(call) == ~call.isUnique /\ call.attempts < maxAttempts

\* The handler of the request body at the call of generateTripCode
CallOf(d, body) ==
    [busy |-> TRUE, doc |-> SetupRead(d, body), body |-> body,
     attempts |-> 0, code |-> NoCode, isUnique |-> FALSE]

InitCodeLoop ==
    /\ data \in {EmptyData, StoredTrip}
    /\ stamp = 0
    /\ ops = 0
    /\ last = Req("none", "", "", Zero, "", 0)
    /\ mongo \in MongoStates
    /\ \E body \in SetupBodies :
          /\ SetupRead(data, body).tripCode = NoCode
          /\ setup = CallOf(data, body)

\* One pass of the loop body
TryCode ==
    \E r \in Randoms :
        LET code == DrawCode(r, 0)
        IN  /\ setup.busy
            /\ LoopContinues(setup)
            /\ setup' = [setup EXCEPT !.code = code,
                                      !.isUnique = IsUnique(code, data.tripCode, mongo),
                                      !.attempts = @ + 1]
            /\ UNCHANGED <<data, stamp, ops, last, mongo>>

\* The loop is left: generateTripCode returns the code and the handler
\* recalculates, writes and answers
ReturnCode ==
    /\ setup.busy
    /\ ~LoopContinues(setup)
    /\ data' = SetupWrite(setup.doc, setup.code)
    /\ setup' = [setup EXCEPT !.busy = FALSE]
    /\ ops' = ops + 1
    /\ last' = Req("setup", "", "", setup.body.budget,
                   IF setup.body.clearData THEN "clear" ELSE "", 200)
    /\ UNCHANGED <<stamp, mongo>>

NextCodeLoop == TryCode \/ ReturnCode

\* The event loop resumes the call whenever the lookup it awaits has
\* answered or thrown
SpecCodeLoop ==
    InitCodeLoop /\ [][NextCodeLoop]_vars /\ WF_vars(TryCode) /\ WF_vars(ReturnCode)

\* C30: generateTripCode always terminates: it tries at most 100 codes and
\* returns, even when every code drawn collides with the code of an
\* existing trip or every lookup in MongoDB fails.
C30_Terminates ==
    /\ [](setup.attempts <= maxAttempts)
    /\ <>(~setup.busy)

\* C30 witness: generateTripCode returned after 100 attempts, each of which
\* drew the code of a trip stored in MongoDB.
C30_Witness ==
    /\ ~setup.busy /\ setup.attempts = maxAttempts /\ ~setup.isUnique
    /\ mongo.connected /\ ~mongo.failing /\ setup.code \in mongo.codes
    /\ data.tripCode = setup.code

\* generateTripCode returned after one attempt whose lookup threw
ReturnedOnFailingLookup ==
    /\ ~setup.busy /\ setup.attempts = 1
    /\ mongo.connected /\ mongo.failing /\ setup.code \in mongo.codes

=============================================================================
